---- MODULE Spec2Model ----
(***************************************************************************)
(* A model of the i386 back end of the linker (src/elf/arch-i386.cc):      *)
(* the PLT emitters, write_addend, relax_got32x, the relocation scanner    *)
(* (scan_relocations) and the two relocation appliers (apply_reloc_alloc   *)
(* and apply_reloc_nonalloc).                                              *)
(*                                                                         *)
(* Relocation types are the strings of their enumerators; "R_386_UNKNOWN"  *)
(* stands for any r_type value outside the i386 set.  A byte buffer is a   *)
(* function from offsets 0..n-1 to bytes; the value Untouched marks a      *)
(* byte of an output buffer that no store has reached.  Machine integers   *)
(* are kept inside 32 bits signed, and a store of a wider value keeps its  *)
(* low bytes, as the ul16/ul32 stores of the source do.                    *)
(***************************************************************************)
EXTENDS Integers, Sequences, FiniteSets, TLC

\* ------------------------------------------------------------------ bounds

\* Length of a section's contents and of its output buffer, in bytes.
SecLen == 16
\* Longest relocation list of a section.
MaxRels == 3
\* Number of threads scanning sections at the same time.
NumTasks == 2

\* ------------------------------------------------------------- byte stores

\* A value no byte takes (one more than 0xff): a byte of an output buffer
\* that no store has reached.
Untouched == 255 + 1

\* Byte k (0 = least significant) of the two's complement form of v.
ByteOf(v, k) == (v \div (256 ^ k)) % 256

\* The w low bytes of v, least significant first: what *loc = val (w = 1),
\* *(ul16 *)loc = val (w = 2) and *(ul32 *)loc = val (w = 4) put in memory.
LE(v, w) == [k \in 1..w |-> ByteOf(v, k - 1)]

\* memcpy(b + off, bytes, sizeof(bytes)), and every typed store.
Store(b, off, bytes) ==
    [j \in DOMAIN b |->
        IF off <= j /\ j < off + Len(bytes) THEN bytes[j - off + 1] ELSE b[j]]

\* The unsigned value of the w bytes at off, least significant first.
RECURSIVE Load(_, _, _)
Load(b, off, w) ==
    IF w = 0 THEN 0 ELSE b[off] + 256 * Load(b, off + 1, w - 1)

\* ----------------------------------------------------------- the type set

RelocationType ==
    { "R_386_NONE", "R_386_8", "R_386_16", "R_386_32", "R_386_PC8",
      "R_386_PC16", "R_386_PC32", "R_386_GOT32", "R_386_GOT32X",
      "R_386_PLT32", "R_386_GOTOFF", "R_386_GOTPC", "R_386_SIZE32",
      "R_386_TLS_LE", "R_386_TLS_IE", "R_386_TLS_GOTIE", "R_386_TLS_GD",
      "R_386_TLS_LDM", "R_386_TLS_LDO_32", "R_386_TLS_GOTDESC",
      "R_386_TLS_DESC_CALL" }

\* Every r_type value an input file can carry.
AnyType == RelocationType \cup {"R_386_UNKNOWN"}

\* ------------------------------------------------------------------ state

VARIABLES
    ctx,          \* Context: arg.relax, arg.pic, the relaxation policies
    isec,         \* per task: the InputSection it works on (rels, contents, ...)
    flags,        \* per symbol: Symbol::flags, a set of NEEDS_* bits
    needs_tlsld,  \* ctx.needs_tlsld
    errlog,       \* per task: the errors it recorded (Error, record_undef_error)
    fatal,        \* a Fatal was raised: the link has terminated
    pc,           \* per task: where its scan or apply loop stands
    idx,          \* per task: the loop variable i
    slots,        \* what the allocator assigned after the scan phase
    buf,          \* per task: the section's bytes in the output file
    visited,      \* per task: the relocation indices each loop body ran on
    last,         \* the step taken last (what it decided, what it saw)
    call,         \* a stand-alone call of an emitter: function and arguments
    mem           \* the buffer a stand-alone call writes into

mvars == <<ctx, isec, flags, needs_tlsld, errlog, fatal, pc, idx, slots, buf,
           visited, last>>
cvars == <<call, mem>>
vars == <<ctx, isec, flags, needs_tlsld, errlog, fatal, pc, idx, slots, buf,
          visited, last, call, mem>>

\* ------------------------------------------------------------ PLT emitter

\* sizeof(ElfRel<I386>): r_offset and r_info, 4 bytes each.
SizeofElfRel == 8

\* A PLT buffer before the emitter runs: PltLen bytes, none written.
PltLen == 20
AddendLen == 8
FreshBuf(n) == [j \in 0..(n - 1) |-> Untouched]

insn_plt_header_pic ==
    << 243, 15, 30, 251,       \* f3 0f 1e fb   endbr32
       81,                     \* 51            push %ecx
       141, 139, 0, 0, 0, 0,   \* 8d 8b ..      lea GOTPLT+4(%ebx), %ecx
       255, 49,                \* ff 31         push (%ecx)
       255, 97, 4 >>           \* ff 61 04      jmp *0x4(%ecx)

\* The header with one more byte of padding than the source has.
insn_plt_header_nonpic_17 ==
    << 243, 15, 30, 251, 81, 185, 0, 0, 0, 0, 255, 49, 255, 97, 4, 204, 204 >>

insn_plt_header_nonpic ==
    << 243, 15, 30, 251,       \* f3 0f 1e fb   endbr32
       81,                     \* 51            push %ecx
       185, 0, 0, 0, 0,        \* b9 ..         mov GOTPLT+4, %ecx
       255, 49,                \* ff 31         push (%ecx)
       255, 97, 4,             \* ff 61 04      jmp *0x4(%ecx)
       204 >>                  \* cc            (padding)

write_plt_header(pic, b, gotplt_addr, got_addr) ==
    IF pic
    THEN Store(Store(b, 0, insn_plt_header_pic), 7,
               LE(gotplt_addr - got_addr + 4, 4))
    ELSE Store(Store(b, 0, insn_plt_header_nonpic), 6,
               LE(gotplt_addr + 4, 4))

insn_plt_entry_pic ==
    << 243, 15, 30, 251,       \* f3 0f 1e fb   endbr32
       185, 0, 0, 0, 0,        \* b9 ..         mov $reloc_offset, %ecx
       255, 163, 0, 0, 0, 0,   \* ff a3 ..      jmp *foo@GOT(%ebx)
       204 >>                  \* cc            (padding)

insn_plt_entry_nonpic ==
    << 243, 15, 30, 251,       \* f3 0f 1e fb   endbr32
       185, 0, 0, 0, 0,        \* b9 ..         mov $reloc_offset, %ecx
       255, 37, 0, 0, 0, 0,    \* ff 25 ..      jmp *foo@GOT
       204 >>                  \* cc            (padding)

write_plt_entry(pic, b, sym_gotplt_addr, got_addr, plt_idx) ==
    LET b1 == IF pic
              THEN Store(Store(b, 0, insn_plt_entry_pic), 11,
                         LE(sym_gotplt_addr - got_addr, 4))
              ELSE Store(Store(b, 0, insn_plt_entry_nonpic), 11,
                         LE(sym_gotplt_addr, 4))
    IN  Store(b1, 5, LE(plt_idx * SizeofElfRel, 4))

insn_pltgot_entry_pic ==
    << 243, 15, 30, 251,               \* f3 0f 1e fb   endbr32
       255, 163, 0, 0, 0, 0,           \* ff a3 ..      jmp *foo@GOT(%ebx)
       204, 204, 204, 204, 204, 204 >> \* cc ...        (padding)

insn_pltgot_entry_nonpic ==
    << 243, 15, 30, 251,               \* f3 0f 1e fb   endbr32
       255, 37, 0, 0, 0, 0,            \* ff 25 ..      jmp *foo@GOT
       204, 204, 204, 204, 204, 204 >> \* cc ...        (padding)

write_pltgot_entry(pic, b, sym_got_addr, got_addr) ==
    IF pic
    THEN Store(Store(b, 0, insn_pltgot_entry_pic), 6,
               LE(sym_got_addr - got_addr, 4))
    ELSE Store(Store(b, 0, insn_pltgot_entry_nonpic), 6,
               LE(sym_got_addr, 4))

\* ----------------------------------------------------------- write_addend

\* unreachable(): the build with assertions aborts; without them control
\* runs on into whatever the compiler laid out, here one of the stores of
\* the switch or none.
UnreachableWidths == {0, 1, 2, 4}

\* A switch whose 16-bit case lost R_386_PC16 to the 32-bit list.
AddendWidth_Pc16As4(type) ==
    CASE type = "R_386_NONE" -> 0
      [] type \in {"R_386_8", "R_386_PC8"} -> 1
      [] type = "R_386_16" -> 2
      [] type \in {"R_386_TLS_DESC_CALL", "R_386_UNKNOWN"} -> -1
      [] OTHER -> 4

\* The field width write_addend stores for a type it handles.
AddendWidth(type) ==
    CASE type = "R_386_NONE" -> 0
      [] type \in {"R_386_8", "R_386_PC8"} -> 1
      [] type \in {"R_386_16", "R_386_PC16"} -> 2
      [] type \in {"R_386_32", "R_386_PC32", "R_386_GOT32", "R_386_GOT32X",
                   "R_386_PLT32", "R_386_GOTOFF", "R_386_GOTPC",
                   "R_386_TLS_LDM", "R_386_TLS_GOTIE", "R_386_TLS_LE",
                   "R_386_TLS_IE", "R_386_TLS_GD", "R_386_TLS_LDO_32",
                   "R_386_SIZE32", "R_386_TLS_GOTDESC"} -> 4
      [] OTHER -> -1

\* write_addend(loc, val, rel): the set of its outcomes, each the buffer it
\* leaves and whether unreachable() was reached (aborted: the assertion of
\* unreachable() stopped the process).
write_addend(b, loc, val, type) ==
    IF AddendWidth(type) >= 0
    THEN {[buf |-> Store(b, loc, LE(val, AddendWidth(type))),
           unreachable |-> FALSE, aborted |-> FALSE]}
    ELSE {[buf |-> b, unreachable |-> TRUE, aborted |-> TRUE]} \cup
         {[buf |-> Store(b, loc, LE(val, w)),
           unreachable |-> TRUE, aborted |-> FALSE] : w \in UnreachableWidths}

\* ---------------------------------------------------------------- symbols

\* file.symbols: the symbols the relocations of the modelled inputs refer
\* to.  file = FALSE is a symbol no file defines (sym.file == nullptr).
\* absrel, pcrel and dyn_absrel are the decisions the policy tables of
\* scan_rel (absrel_table, pcrel_table, dyn_absrel_table) reach for the
\* symbol.
Sym(file, imp, rel, ifn, addr, size, absrel, pcrel, dynrel) ==
    [file |-> file, is_imported |-> imp, is_relative |-> rel,
     is_ifunc |-> ifn, addr |-> addr, st_size |-> size,
     absrel |-> absrel, pcrel |-> pcrel, dyn_absrel |-> dynrel]

Symbols ==
    [ loc  |-> Sym(TRUE, FALSE, TRUE, FALSE, 255, 24, "NONE", "NONE",
                   "NONE"),
      far  |-> Sym(TRUE, FALSE, TRUE, FALSE, 65535, 8, "NONE", "NONE",
                   "NONE"),
      abs  |-> Sym(TRUE, FALSE, FALSE, FALSE, 4660, 0, "NONE", "ERROR",
                   "NONE"),
      imp  |-> Sym(TRUE, TRUE, TRUE, FALSE, 0, 4, "COPYREL", "PLT",
                   "DYNREL"),
      iabs |-> Sym(TRUE, TRUE, FALSE, FALSE, 0, 0, "COPYREL", "PLT",
                   "DYNREL"),
      ifn  |-> Sym(TRUE, FALSE, TRUE, TRUE, 8192, 16, "NONE", "NONE",
                   "NONE"),
      und  |-> Sym(FALSE, FALSE, FALSE, FALSE, 0, 0, "NONE", "NONE",
                   "NONE"),
      tv   |-> Sym(TRUE, FALSE, TRUE, FALSE, 32, 4, "NONE", "NONE",
                   "NONE"),
      tw   |-> Sym(TRUE, TRUE, TRUE, FALSE, 0, 4, "NONE", "NONE",
                   "NONE"),
      fn   |-> Sym(TRUE, TRUE, TRUE, FALSE, 0, 0, "PLT", "PLT",
                   "NONE"),
      str  |-> Sym(TRUE, FALSE, TRUE, FALSE, 0, 0, "NONE", "NONE",
                   "NONE"),
      dead |-> Sym(TRUE, FALSE, TRUE, FALSE, 0, 0, "NONE", "NONE",
                   "NONE") ]

Syms == DOMAIN Symbols

\* The index of a symbol in its table (got_idx, gottp_idx, tlsgd_idx, ...),
\* as the allocator assigns it: any injective numbering does.
SlotIdx(s) ==
    CASE s = "loc" -> 1 [] s = "far" -> 2 [] s = "abs" -> 3 [] s = "imp" -> 4
      [] s = "iabs" -> 5 [] s = "ifn" -> 6 [] s = "und" -> 7 [] s = "tv" -> 8
      [] s = "tw" -> 9 [] s = "fn" -> 10 [] s = "str" -> 11
      [] s = "dead" -> 12

\* sizeof(Word<I386>)
WordSize == 4

\* The addresses the formulas read: ctx.got->shdr.sh_addr, ctx.tp_addr
\* and ctx.tls_begin.
got_addr == 12288
tp_addr == 4096
tls_begin == 3840

\* The address of the symbol's slot in .got (get_gottp_addr,
\* get_tlsgd_addr, get_tlsdesc_addr) and of the TLS-LD slot.
get_slot_addr(s) == got_addr + SlotIdx(s) * WordSize
get_tlsld_addr == got_addr + 13 * WordSize

\* get_fragment(ctx, rel): the section fragment a reference to a symbol of
\* a mergeable section resolves to, with its addend; has = FALSE: none.
get_fragment(s) ==
    IF s = "str" THEN [has |-> TRUE, addr |-> 20480, addend |-> 3]
    ELSE [has |-> FALSE, addr |-> 0, addend |-> 0]

\* get_tombstone(sym, frag): the value to write for a reference into a
\* discarded section; has = FALSE: none.
get_tombstone(s) ==
    IF s = "dead" THEN [has |-> TRUE, val |-> 1] ELSE [has |-> FALSE, val |-> 0]

\* An ElfRel<I386>: r_offset, r_type, r_sym (no addend: it is in the field).
Rel(off, type, sym) == [r_offset |-> off, r_type |-> type, r_sym |-> sym]

\* ------------------------------------------------------- scan_relocations

\* A plain store in the place of the atomic OR: flags = bits.
FetchOr_Store(word, bits) == bits

\* flags.fetch_or(bits, std::memory_order_relaxed): one atomic step.
FetchOr(word, bits) == word \cup bits

\* relax_got32x with & written for |: 0x8d00 & loc[1] is 0 for every byte.
relax_got32x_And(b, loc) ==
    IF b[loc] = 139 THEN 0 ELSE 0

\* relax_got32x(loc): 0x8d00 | loc[1] when loc[0] is the opcode of
\* mov imm(%reg1), %reg2, else 0.  loc[1] is a byte, so | is +.
relax_got32x(b, loc) ==
    IF b[loc] = 139 THEN 36096 + b[loc + 1] ELSE 0

\* relax_tlsgd(ctx, sym), relax_tlsld(ctx), relax_tlsdesc(ctx, sym): the
\* policy functions, defined outside this file.  Each is a fixed function
\* of the context and the symbol; the context carries their graphs.
relax_tlsgd(c, s) == s \in c.tlsgd
relax_tlsld(c) == c.tlsld
relax_tlsdesc(c, s) == s \in c.tlsdesc

\* scan_rel(ctx, sym, rel, table): looks the symbol up in the policy table
\* and does what the entry says: nothing, an error, or a request for a
\* copy relocation or a PLT entry.  Gives the bits to OR and the errors.
scan_rel(s, decision) ==
    CASE decision = "NONE"    -> [bits |-> {}, errs |-> <<>>]
      [] decision = "COPYREL" -> [bits |-> {"NEEDS_COPYREL"}, errs |-> <<>>]
      [] decision = "PLT"     -> [bits |-> {"NEEDS_PLT"}, errs |-> <<>>]
      [] decision = "DYNREL"  -> [bits |-> {}, errs |-> <<>>]
      [] decision = "ERROR"   -> [bits |-> {}, errs |-> <<"scan_rel">>]

\* The follower test with R_386_32 written where R_386_PC32 belongs.
IsFollowerType_Abs32(ty) ==
    ty \in {"R_386_PLT32", "R_386_32", "R_386_GOT32", "R_386_GOT32X"}

\* The follower test of TLS_GD and TLS_LDM (lines 524-526 and 538-540).
IsFollowerType(ty) ==
    ty \in {"R_386_PLT32", "R_386_PC32", "R_386_GOT32", "R_386_GOT32X"}

\* What one pass through the switch of scan_relocations does: the bits to
\* OR into the symbol's flags, whether ctx.needs_tlsld is set, the errors
\* recorded, whether a Fatal ends the link, and by how much i advances
\* before the loop's i++.  ScanNothing: a case that does nothing.
ScanNothing == [bits |-> {}, tlsld |-> FALSE, errs |-> <<>>,
                fatal |-> FALSE, skip |-> 0]

\* case R_386_GOT32X (lines 504-510).
ScanGot32x(c, sym, contents, loc) ==
    LET do_relax == c.relax /\ ~sym.is_imported /\ sym.is_relative
                    /\ relax_got32x(contents, loc - 2) # 0
    IN  IF ~do_relax THEN [ScanNothing EXCEPT !.bits = {"NEEDS_GOT"}]
        ELSE ScanNothing

\* case R_386_TLS_GD with the i++ of the relaxed branch left out.
ScanTlsGd_NoSkip(c, rels, i, s) ==
    IF i + 1 = Len(rels) THEN [ScanNothing EXCEPT !.fatal = TRUE]
    ELSE IF ~IsFollowerType(rels[i + 2].r_type)
    THEN [ScanNothing EXCEPT !.fatal = TRUE]
    ELSE IF relax_tlsgd(c, s) THEN ScanNothing
    ELSE [ScanNothing EXCEPT !.bits = {"NEEDS_TLSGD"}]

\* case R_386_TLS_GD (lines 520-533).
ScanTlsGd(c, rels, i, s) ==
    IF i + 1 = Len(rels) THEN [ScanNothing EXCEPT !.fatal = TRUE]
    ELSE IF ~IsFollowerType(rels[i + 2].r_type)
    THEN [ScanNothing EXCEPT !.fatal = TRUE]
    ELSE IF relax_tlsgd(c, s) THEN [ScanNothing EXCEPT !.skip = 1]
    ELSE [ScanNothing EXCEPT !.bits = {"NEEDS_TLSGD"}]

\* case R_386_TLS_LDM (lines 534-547).
ScanTlsLdm(c, rels, i) ==
    IF i + 1 = Len(rels) THEN [ScanNothing EXCEPT !.fatal = TRUE]
    ELSE IF ~IsFollowerType(rels[i + 2].r_type)
    THEN [ScanNothing EXCEPT !.fatal = TRUE]
    ELSE IF relax_tlsld(c) THEN [ScanNothing EXCEPT !.skip = 1]
    ELSE [ScanNothing EXCEPT !.tlsld = TRUE]

\* default: with Fatal(ctx) in the place of Error(ctx).
ScanUnknown_Fatal == [ScanNothing EXCEPT !.fatal = TRUE]

\* default: Error(ctx) << "unknown relocation" (lines 557-558).
ScanUnknown == [ScanNothing EXCEPT !.errs = <<"unknown">>]

\* The switch of scan_relocations on relocation i (0-based) of rels, with
\* contents the section's input bytes.
ScanSwitchResult(c, rels, contents, i) ==
    LET rel  == rels[i + 1]
        ty   == rel.r_type
        s    == rel.r_sym
        sym  == Symbols[s]
        loc  == rel.r_offset
    IN  CASE ty \in {"R_386_8", "R_386_16"} ->
               [ScanNothing EXCEPT !.bits = scan_rel(s, sym.absrel).bits,
                                   !.errs = scan_rel(s, sym.absrel).errs]
          [] ty = "R_386_32" ->
               [ScanNothing EXCEPT !.bits = scan_rel(s, sym.dyn_absrel).bits,
                                   !.errs = scan_rel(s, sym.dyn_absrel).errs]
          [] ty \in {"R_386_PC8", "R_386_PC16", "R_386_PC32"} ->
               [ScanNothing EXCEPT !.bits = scan_rel(s, sym.pcrel).bits,
                                   !.errs = scan_rel(s, sym.pcrel).errs]
          [] ty \in {"R_386_GOT32", "R_386_GOTPC"} ->
               [ScanNothing EXCEPT !.bits = {"NEEDS_GOT"}]
          [] ty = "R_386_GOT32X" -> ScanGot32x(c, sym, contents, loc)
          [] ty = "R_386_PLT32" ->
               IF sym.is_imported
               THEN [ScanNothing EXCEPT !.bits = {"NEEDS_PLT"}]
               ELSE ScanNothing
          [] ty \in {"R_386_TLS_GOTIE", "R_386_TLS_LE", "R_386_TLS_IE"} ->
               [ScanNothing EXCEPT !.bits = {"NEEDS_GOTTP"}]
          [] ty = "R_386_TLS_GD" -> ScanTlsGd(c, rels, i, s)
          [] ty = "R_386_TLS_LDM" -> ScanTlsLdm(c, rels, i)
          [] ty = "R_386_TLS_GOTDESC" ->
               IF ~relax_tlsdesc(c, s)
               THEN [ScanNothing EXCEPT !.bits = {"NEEDS_TLSDESC"}]
               ELSE ScanNothing
          [] ty \in {"R_386_GOTOFF", "R_386_TLS_LDO_32", "R_386_SIZE32",
                     "R_386_TLS_DESC_CALL"} -> ScanNothing
          [] OTHER -> ScanUnknown

Tasks == DOMAIN isec

\* What `last` holds when no step has been taken, and after a step.
NoStep == [op |-> "none", t |-> 0, i |-> 0, type |-> "R_386_NONE",
           sym |-> "loc", branch |-> "none", before |-> <<>>, old |-> {}]
Step(op, t, i, rel, branch, before, old) ==
    [op |-> op, t |-> t, i |-> i, type |-> rel.r_type, sym |-> rel.r_sym,
     branch |-> branch, before |-> before, old |-> old]

\* An entry of a task's error log.
Err(kind, i) == [kind |-> kind, i |-> i]

\* Entry of scan_relocations: the section must be allocatable (the assert
\* of line 465); reserves the section's range of the dynamic relocation
\* table at the file's cursor.
ScanStart(t) ==
    /\ ~fatal
    /\ pc[t] = "start"
    /\ isec[t].alloc
    /\ isec' = [isec EXCEPT ![t].reldyn_offset =
                                isec[t].num_dynrel * SizeofElfRel]
    /\ pc' = [pc EXCEPT ![t] = "loop"]
    /\ UNCHANGED <<ctx, flags, needs_tlsld, errlog, fatal, idx, slots, buf,
                   visited, last, call, mem>>

\* The head of the scan loop: the loop test, the skip of R_NONE, the
\* undefined-symbol error, and the fetch_or for an ifunc symbol.
ScanLoop(t) ==
    /\ ~fatal
    /\ pc[t] = "loop"
    /\ LET rels == isec[t].rels
           i    == idx[t]
       IN  IF i >= Len(rels)
           THEN /\ pc' = [pc EXCEPT ![t] = "scanned"]
                /\ last' = [NoStep EXCEPT !.op = "return", !.t = t]
                /\ UNCHANGED <<flags, errlog, idx, visited>>
           ELSE LET rel == rels[i + 1]
                    sym == Symbols[rel.r_sym]
                IN  /\ visited' = [visited EXCEPT ![t].scan = @ \cup {i}]
                    /\ IF rel.r_type = "R_386_NONE"
                       THEN /\ idx' = [idx EXCEPT ![t] = i + 1]
                            /\ last' = Step("scan", t, i, rel, "none",
                                            <<>>, flags[rel.r_sym])
                            /\ UNCHANGED <<flags, errlog, pc>>
                       ELSE IF ~sym.file
                       THEN /\ errlog' = [errlog EXCEPT
                                            ![t] = Append(@, Err("undef", i))]
                            /\ idx' = [idx EXCEPT ![t] = i + 1]
                            /\ last' = Step("scan", t, i, rel, "undef",
                                            <<>>, flags[rel.r_sym])
                            /\ UNCHANGED <<flags, pc>>
                       ELSE /\ flags' =
                                 IF sym.is_ifunc
                                 THEN [flags EXCEPT ![rel.r_sym] =
                                         FetchOr(@, {"NEEDS_GOT", "NEEDS_PLT"})]
                                 ELSE flags
                            /\ pc' = [pc EXCEPT ![t] = "switch"]
                            /\ last' = Step("head", t, i, rel, "switch",
                                            <<>>, flags[rel.r_sym])
                            /\ UNCHANGED <<errlog, idx>>
    /\ UNCHANGED <<ctx, isec, needs_tlsld, fatal, slots, buf, call, mem>>

\* The switch of the scan loop on the relocation at i, and the loop's i++.
ScanSwitch(t) ==
    /\ ~fatal
    /\ pc[t] = "switch"
    /\ LET rels == isec[t].rels
           i    == idx[t]
           rel  == rels[i + 1]
           r    == ScanSwitchResult(ctx, rels, isec[t].contents, i)
       IN  /\ flags' = IF r.bits = {} THEN flags
                       ELSE [flags EXCEPT ![rel.r_sym] = FetchOr(@, r.bits)]
           /\ needs_tlsld' = (needs_tlsld \/ r.tlsld)
           /\ errlog' = [errlog EXCEPT
                           ![t] = @ \o [k \in 1..Len(r.errs) |->
                                           Err(r.errs[k], i)]]
           /\ fatal' = r.fatal
           /\ pc' = [pc EXCEPT ![t] = IF r.fatal THEN "fatal" ELSE "loop"]
           /\ idx' = [idx EXCEPT ![t] = IF r.fatal THEN i ELSE i + r.skip + 1]
           /\ last' = Step("scan", t, i, rel,
                           IF r.fatal THEN "fatal"
                           ELSE IF r.skip = 1 THEN "relax"
                           ELSE IF r.errs # <<>> THEN "error"
                           ELSE IF r.bits # {} \/ r.tlsld THEN "or"
                           ELSE "nop",
                           <<>>, flags[rel.r_sym])
    /\ UNCHANGED <<ctx, isec, slots, buf, visited, call, mem>>

\* Between the phases (the driver, outside this file): once every scan
\* has returned and none recorded an error, the allocator gives a slot to
\* exactly the symbols whose flags ask for one, the section bytes are
\* copied to the output, and the apply phase starts.
Allocate ==
    /\ ~fatal
    /\ ~slots.done
    /\ \A t \in Tasks : pc[t] = "scanned" /\ errlog[t] = <<>>
    /\ slots' = [done  |-> TRUE,
                 got   |-> {s \in Syms : "NEEDS_GOT" \in flags[s]},
                 gottp |-> {s \in Syms : "NEEDS_GOTTP" \in flags[s]},
                 tlsgd |-> {s \in Syms : "NEEDS_TLSGD" \in flags[s]},
                 tlsdesc |-> {s \in Syms : "NEEDS_TLSDESC" \in flags[s]},
                 tlsld |-> needs_tlsld]
    /\ pc' = [t \in Tasks |-> "apply"]
    /\ idx' = [t \in Tasks |-> 0]
    /\ buf' = [t \in Tasks |-> isec[t].contents]
    /\ last' = NoStep
    /\ UNCHANGED <<ctx, isec, flags, needs_tlsld, errlog, fatal, visited,
                   call, mem>>

\* ------------------------------------------------------------ the appliers

\* get_addend(isec, rel): the addend is the value of the field in the input
\* contents, of the width of the relocation's type (32-bit fields signed).
get_addend(contents, rel) ==
    LET w == AddendWidth(rel.r_type)
        o == rel.r_offset
    IN  IF w = 4
        THEN Load(contents, o, 3)
             + 16777216 * (IF contents[o + 3] >= 128 THEN contents[o + 3] - 256
                           ELSE contents[o + 3])
        ELSE IF w \in {1, 2} THEN Load(contents, o, w)
        ELSE 0

\* The lambda with <= turned into <: hi itself passes as in range.
check_Inclusive(val, lo, hi) ==
    IF val < lo \/ hi < val THEN <<"range">> ELSE <<>>

\* The lambda check(val, lo, hi) of both appliers: the errors it records.
check(val, lo, hi) ==
    IF val < lo \/ hi <= val THEN <<"range">> ELSE <<>>

\* apply_dyn_absrel for an output that needs no dynamic relocation at the
\* site: it writes S + A.
apply_dyn_absrel(b, loc, S, A) == Store(b, loc, LE(S + A, 4))

insn_gd_le ==
    << 101, 161, 0, 0, 0, 0,     \* 65 a1 ..   mov %gs:0, %eax
       129, 232, 0, 0, 0, 0 >>   \* 81 e8 ..   sub $val, %eax

insn_ld_le_plt ==
    << 49, 192,                  \* 31 c0      xor %eax, %eax
       101, 139, 0,              \* 65 8b 00   mov %gs:(%eax), %eax
       129, 232, 0, 0, 0, 0 >>   \* 81 e8 ..   sub $tls_size, %eax

insn_ld_le_got ==
    << 49, 192,                  \* 31 c0      xor %eax, %eax
       101, 139, 0,              \* 65 8b 00   mov %gs:(%eax), %eax
       129, 232, 0, 0, 0, 0,     \* 81 e8 ..   sub $tls_size, %eax
       144 >>                    \* 90         nop

insn_gotdesc_le ==
    << 141, 5, 0, 0, 0, 0 >>     \* 8d 05 ..   lea 0, %eax

\* rels[i + 1].r_type as the appliers read it, with no test of i + 1
\* against rels.size(): past the end the read is out of bounds and may
\* yield any type.
FollowerTypes(rels, i) ==
    IF i + 1 < Len(rels) THEN {rels[i + 2].r_type} ELSE AnyType

\* One outcome of an applier's loop body: the buffer it leaves, the errors
\* it records, the next value of i, whether the process aborted (a failed
\* assert), and the branch taken.
Outcome(b, errs, next, aborted, branch) ==
    [buf |-> b, errs |-> errs, next |-> next, aborted |-> aborted,
     branch |-> branch]

\* unreachable() in a loop body at i: the assertion aborts, or (assertions
\* compiled out) control leaves the switch.
Unreachable(b, i) ==
    {Outcome(b, <<>>, i, TRUE, "unreachable"),
     Outcome(b, <<>>, i + 1, FALSE, "unreachable")}

\* The body of the loop of apply_reloc_alloc on relocation i (not R_NONE).
ApplyAllocResult(sl, sec, b, i) ==
    LET rels == sec.rels
        rel  == rels[i + 1]
        ty   == rel.r_type
        s    == rel.r_sym
        sym  == Symbols[s]
        loc  == rel.r_offset
        S    == sym.addr
        A    == get_addend(sec.contents, rel)
        P    == sec.addr + rel.r_offset
        G    == SlotIdx(s) * WordSize
        GOT  == got_addr
        st32(v, br) == {Outcome(Store(b, loc, LE(v, 4)), <<>>, i + 1, FALSE, br)}
    IN  CASE ty = "R_386_8" ->
               {Outcome(Store(b, loc, LE(S + A, 1)),
                        check(S + A, 0, 2 ^ 8), i + 1, FALSE, "narrow")}
          [] ty = "R_386_16" ->
               {Outcome(Store(b, loc, LE(S + A, 2)),
                        check(S + A, 0, 2 ^ 16), i + 1, FALSE, "narrow")}
          [] ty = "R_386_32" ->
               {Outcome(apply_dyn_absrel(b, loc, S, A), <<>>, i + 1, FALSE,
                        "abs")}
          [] ty = "R_386_PC8" ->
               {Outcome(Store(b, loc, LE(S + A - P, 1)),
                        check(S + A - P, -(2 ^ 7), 2 ^ 7), i + 1, FALSE,
                        "narrow")}
          [] ty = "R_386_PC16" ->
               {Outcome(Store(b, loc, LE(S + A - P, 2)),
                        check(S + A - P, -(2 ^ 15), 2 ^ 15), i + 1, FALSE,
                        "narrow")}
          [] ty \in {"R_386_PC32", "R_386_PLT32"} -> st32(S + A - P, "pc")
          [] ty = "R_386_GOT32" -> st32(G + A, "got")
          [] ty = "R_386_GOT32X" ->
               IF s \in sl.got THEN st32(G + A, "got")
               ELSE LET insn == relax_got32x(b, loc - 2)
                        b1   == Store(b, loc - 2, <<insn \div 256>>)
                        b2   == Store(b1, loc - 1, <<insn % 256>>)
                        b3   == Store(b2, loc, LE(S + A - GOT, 4))
                    IN  IF insn # 0
                        THEN {Outcome(b3, <<>>, i + 1, FALSE, "lea")}
                        ELSE {Outcome(b, <<>>, i, TRUE, "assert"),
                              Outcome(b3, <<>>, i + 1, FALSE, "assert")}
          [] ty = "R_386_GOTOFF" -> st32(S + A - GOT, "gotoff")
          [] ty = "R_386_GOTPC" -> st32(GOT + A - P, "gotpc")
          [] ty = "R_386_TLS_GOTIE" ->
               st32(get_slot_addr(s) + A - GOT, "gottp")
          [] ty = "R_386_TLS_LE" -> st32(S + A - tp_addr, "le")
          [] ty = "R_386_TLS_IE" ->
               st32(get_slot_addr(s) + A, "gottp")
          [] ty = "R_386_TLS_GD" ->
               IF s \in sl.tlsgd
               THEN st32(get_slot_addr(s) + A - GOT, "tlsgd")
               ELSE UNION {
                      IF f \in {"R_386_PLT32", "R_386_PC32"}
                      THEN {Outcome(Store(Store(b, loc - 3, insn_gd_le),
                                          loc + 5, LE(tp_addr - S - A, 4)),
                                    <<>>, i + 2, FALSE, "relax")}
                      ELSE IF f \in {"R_386_GOT32", "R_386_GOT32X"}
                      THEN {Outcome(Store(Store(b, loc - 2, insn_gd_le),
                                          loc + 6, LE(tp_addr - S - A, 4)),
                                    <<>>, i + 2, FALSE, "relax")}
                      ELSE {Outcome(b, <<>>, i, TRUE, "unreachable"),
                            Outcome(b, <<>>, i + 2, FALSE, "unreachable")}
                      : f \in FollowerTypes(rels, i)}
          [] ty = "R_386_TLS_LDM" ->
               IF sl.tlsld
               THEN st32(get_tlsld_addr + A - GOT, "tlsld")
               ELSE UNION {
                      IF f \in {"R_386_PLT32", "R_386_PC32"}
                      THEN {Outcome(Store(Store(b, loc - 2, insn_ld_le_plt),
                                          loc + 5, LE(tp_addr - tls_begin, 4)),
                                    <<>>, i + 2, FALSE, "relax")}
                      ELSE IF f \in {"R_386_GOT32", "R_386_GOT32X"}
                      THEN {Outcome(Store(Store(b, loc - 2, insn_ld_le_got),
                                          loc + 5, LE(tp_addr - tls_begin, 4)),
                                    <<>>, i + 2, FALSE, "relax")}
                      ELSE {Outcome(b, <<>>, i, TRUE, "unreachable"),
                            Outcome(Store(b, loc + 5,
                                          LE(tp_addr - tls_begin, 4)),
                                    <<>>, i + 2, FALSE, "unreachable")}
                      : f \in FollowerTypes(rels, i)}
          [] ty = "R_386_TLS_LDO_32" -> st32(S + A - tls_begin, "ldo")
          [] ty = "R_386_SIZE32" -> st32(sym.st_size + A, "size")
          [] ty = "R_386_TLS_GOTDESC" ->
               IF s \in sl.tlsdesc
               THEN st32(get_slot_addr(s) + A - GOT, "tlsdesc")
               ELSE {Outcome(Store(Store(b, loc - 2, insn_gotdesc_le), loc,
                                   LE(S + A - tp_addr, 4)),
                             <<>>, i + 1, FALSE, "relax")}
          [] ty = "R_386_TLS_DESC_CALL" ->
               IF s \notin sl.tlsdesc
               THEN {Outcome(Store(b, loc, <<102, 144>>), <<>>, i + 1, FALSE,
                             "relax")}
               ELSE {Outcome(b, <<>>, i + 1, FALSE, "keep")}
          [] OTHER -> Unreachable(b, i)

\* The loop body of apply_reloc_alloc run on a section that is not
\* allocatable: no symbol has a slot.
ApplyNonallocResult_AsAlloc(sec, b, i) ==
    ApplyAllocResult([done |-> TRUE, got |-> {}, gottp |-> {}, tlsgd |-> {},
                      tlsdesc |-> {}, tlsld |-> FALSE], sec, b, i)

\* The body of the loop of apply_reloc_nonalloc on relocation i (not
\* R_NONE, its symbol defined).
ApplyNonallocResult(sec, b, i) ==
    LET rel  == sec.rels[i + 1]
        ty   == rel.r_type
        s    == rel.r_sym
        sym  == Symbols[s]
        loc  == rel.r_offset
        frag == get_fragment(s)
        tomb == get_tombstone(s)
        S    == IF frag.has THEN frag.addr ELSE sym.addr
        A    == IF frag.has THEN frag.addend ELSE get_addend(sec.contents, rel)
        GOT  == got_addr
        st32(v, br) == {Outcome(Store(b, loc, LE(v, 4)), <<>>, i + 1, FALSE, br)}
    IN  CASE ty = "R_386_8" ->
               {Outcome(Store(b, loc, LE(S + A, 1)),
                        check(S + A, 0, 2 ^ 8), i + 1, FALSE, "narrow")}
          [] ty = "R_386_16" ->
               {Outcome(Store(b, loc, LE(S + A, 2)),
                        check(S + A, 0, 2 ^ 16), i + 1, FALSE, "narrow")}
          [] ty = "R_386_32" ->
               IF tomb.has THEN st32(tomb.val, "tombstone")
               ELSE st32(S + A, "abs")
          [] ty = "R_386_PC8" ->
               {Outcome(Store(b, loc, LE(S + A, 1)),
                        check(S + A, -(2 ^ 7), 2 ^ 7), i + 1, FALSE, "narrow")}
          [] ty = "R_386_PC16" ->
               {Outcome(Store(b, loc, LE(S + A, 2)),
                        check(S + A, -(2 ^ 15), 2 ^ 15), i + 1, FALSE,
                        "narrow")}
          [] ty = "R_386_PC32" -> st32(S + A, "pc")
          [] ty = "R_386_GOTPC" -> st32(GOT + A, "gotpc")
          [] ty = "R_386_GOTOFF" -> st32(S + A - GOT, "gotoff")
          [] ty = "R_386_TLS_LDO_32" ->
               IF tomb.has THEN st32(tomb.val, "tombstone")
               ELSE st32(S + A - tls_begin, "ldo")
          [] ty = "R_386_SIZE32" -> st32(sym.st_size + A, "size")
          [] OTHER -> Unreachable(b, i)

\* A step of an applier's loop, given the outcomes of its body.
ApplyStep(t, outcomes) ==
    LET rels == isec[t].rels
        i    == idx[t]
    IN  IF i >= Len(rels)
        THEN /\ pc' = [pc EXCEPT ![t] = "done"]
             /\ last' = [NoStep EXCEPT !.op = "return", !.t = t]
             /\ UNCHANGED <<errlog, idx, buf, visited>>
        ELSE LET rel == rels[i + 1]
             IN  /\ visited' = [visited EXCEPT ![t].apply = @ \cup {i}]
                 /\ \E o \in outcomes :
                      /\ buf' = [buf EXCEPT ![t] = o.buf]
                      /\ errlog' = [errlog EXCEPT
                                      ![t] = @ \o [k \in 1..Len(o.errs) |->
                                                      Err(o.errs[k], i)]]
                      /\ idx' = [idx EXCEPT ![t] = o.next]
                      /\ pc' = [pc EXCEPT ![t] = IF o.aborted THEN "abort"
                                                 ELSE "apply"]
                      /\ last' = Step("apply", t, i, rel, o.branch, buf[t],
                                      {})

\* One iteration of the loop of apply_reloc_alloc.
ApplyAlloc(t) ==
    /\ ~fatal
    /\ pc[t] = "apply"
    /\ isec[t].alloc
    /\ ApplyStep(t,
         IF idx[t] >= Len(isec[t].rels) THEN {}
         ELSE IF isec[t].rels[idx[t] + 1].r_type = "R_386_NONE"
         THEN {Outcome(buf[t], <<>>, idx[t] + 1, FALSE, "none")}
         ELSE ApplyAllocResult(slots, isec[t], buf[t], idx[t]))
    /\ UNCHANGED <<ctx, isec, flags, needs_tlsld, fatal, slots, call, mem>>

\* One iteration of the loop of apply_reloc_nonalloc.
ApplyNonalloc(t) ==
    /\ ~fatal
    /\ pc[t] = "apply"
    /\ ~isec[t].alloc
    /\ ApplyStep(t,
         IF idx[t] >= Len(isec[t].rels) THEN {}
         ELSE IF isec[t].rels[idx[t] + 1].r_type = "R_386_NONE"
         THEN {Outcome(buf[t], <<>>, idx[t] + 1, FALSE, "none")}
         ELSE IF ~Symbols[isec[t].rels[idx[t] + 1].r_sym].file
         THEN {Outcome(buf[t], <<"undef">>, idx[t] + 1, FALSE, "undef")}
         ELSE ApplyNonallocResult(isec[t], buf[t], idx[t]))
    /\ UNCHANGED <<ctx, isec, flags, needs_tlsld, fatal, slots, call, mem>>

\* ------------------------------------------------ stand-alone emitter calls

NoCall == [fn |-> "none", pic |-> FALSE, type |-> "R_386_NONE", val |-> 0,
           loc |-> 0, a1 |-> 0, a2 |-> 0, n |-> 0, pc |-> "none",
           unreachable |-> FALSE]

\* write_plt_header(ctx, buf)
CallWritePltHeader ==
    /\ call.fn = "write_plt_header" /\ call.pc = "ready"
    /\ mem' = write_plt_header(call.pic, mem, call.a1, call.a2)
    /\ call' = [call EXCEPT !.pc = "done"]
    /\ UNCHANGED mvars

\* write_plt_entry(ctx, buf, sym)
CallWritePltEntry ==
    /\ call.fn = "write_plt_entry" /\ call.pc = "ready"
    /\ mem' = write_plt_entry(call.pic, mem, call.a1, call.a2, call.n)
    /\ call' = [call EXCEPT !.pc = "done"]
    /\ UNCHANGED mvars

\* write_pltgot_entry(ctx, buf, sym)
CallWritePltgotEntry ==
    /\ call.fn = "write_pltgot_entry" /\ call.pc = "ready"
    /\ mem' = write_pltgot_entry(call.pic, mem, call.a1, call.a2)
    /\ call' = [call EXCEPT !.pc = "done"]
    /\ UNCHANGED mvars

\* write_addend(loc, val, rel)
CallWriteAddend ==
    /\ call.fn = "write_addend" /\ call.pc = "ready"
    /\ \E o \in write_addend(mem, call.loc, call.val, call.type) :
         /\ mem' = o.buf
         /\ call' = [call EXCEPT !.pc = IF o.aborted THEN "abort" ELSE "done",
                                 !.unreachable = o.unreachable]
    /\ UNCHANGED mvars

\* ------------------------------------------------------------ initial states

\* All sequences over A of length at most n.
Lists(A, n) == UNION {[1..k -> A] : k \in 0..n}

\* A section of SecLen zero bytes, with the given bytes patched in.
ZeroBytes == [j \in 0..(SecLen - 1) |-> 0]

Section(rels, contents, alloc, addr) ==
    [rels |-> rels, contents |-> contents, alloc |-> alloc, addr |-> addr,
     num_dynrel |-> 2, reldyn_offset |-> 0]

Context(relax, tlsgd, tlsld, tlsdesc) ==
    [relax |-> relax, tlsgd |-> tlsgd, tlsld |-> tlsld, tlsdesc |-> tlsdesc]

\* The state before any phase has run: secs is the sequence of sections,
\* one per task.  An allocatable section is scanned first; the others wait
\* for the apply phase.
MachineInit(c, secs) ==
    /\ ctx = c
    /\ isec = secs
    /\ flags = [s \in Syms |-> {}]
    /\ needs_tlsld = FALSE
    /\ errlog = [t \in DOMAIN secs |-> <<>>]
    /\ fatal = FALSE
    /\ pc = [t \in DOMAIN secs |-> IF secs[t].alloc THEN "start" ELSE "scanned"]
    /\ idx = [t \in DOMAIN secs |-> 0]
    /\ slots = [done |-> FALSE, got |-> {}, gottp |-> {}, tlsgd |-> {},
                tlsdesc |-> {}, tlsld |-> FALSE]
    /\ buf = [t \in DOMAIN secs |-> secs[t].contents]
    /\ visited = [t \in DOMAIN secs |-> [scan |-> {}, apply |-> {}]]
    /\ last = NoStep

NoMachine == MachineInit(Context(FALSE, {}, FALSE, {}), <<>>)

\* --- TLS_GD / TLS_LDM and their followers, unknown types: one section.
TlsRels ==
    { Rel(3, "R_386_TLS_GD", "tv"), Rel(3, "R_386_TLS_GD", "tw"),
      Rel(3, "R_386_TLS_GD", "und"), Rel(3, "R_386_TLS_LDM", "tv"),
      Rel(8, "R_386_PLT32", "fn"), Rel(8, "R_386_PC32", "fn"),
      Rel(8, "R_386_GOT32", "fn"), Rel(8, "R_386_GOT32X", "fn"),
      Rel(8, "R_386_NONE", "loc"), Rel(8, "R_386_32", "loc"),
      Rel(8, "R_386_UNKNOWN", "loc") }

\* A TLS_GD or TLS_LDM relocation followed by one relocation of any type.
TlsPairs ==
    { <<Rel(3, g[1], g[2]), Rel(8, ty, "loc")>> :
        g \in {"R_386_TLS_GD", "R_386_TLS_LDM"} \X {"tv", "und"},
        ty \in AnyType }

InitTls ==
    /\ \E rels \in Lists(TlsRels, MaxRels) \cup TlsPairs,
          gd \in {{}, {"tv"}}, ld \in BOOLEAN :
         MachineInit(Context(TRUE, gd, ld, {}),
                     <<Section(rels, ZeroBytes, TRUE, 4096)>>)
    /\ call = NoCall /\ mem = <<>>

NextLink ==
    \/ \E t \in Tasks : ScanStart(t)
    \/ \E t \in Tasks : ScanLoop(t)
    \/ \E t \in Tasks : ScanSwitch(t)
    \/ Allocate
    \/ \E t \in Tasks : ApplyAlloc(t)

SpecTls == InitTls /\ [][NextLink]_vars

\* --- GOT32X sites with their opcode bytes: one section.
GotRels ==
    { Rel(2, "R_386_GOT32X", "loc"), Rel(2, "R_386_GOT32X", "abs"),
      Rel(2, "R_386_GOT32X", "imp"), Rel(2, "R_386_GOT32X", "iabs"),
      Rel(2, "R_386_GOT32X", "ifn"), Rel(8, "R_386_GOT32X", "loc"),
      Rel(12, "R_386_GOT32", "loc") }

\* Section contents with the two instruction bytes before offset 2 and the
\* opcode byte before offset 8 as given, and an addend of 4 in each field.
GotContents(c0, c1, c6) ==
    Store(Store(Store(Store(Store(ZeroBytes, 0, <<c0, c1>>), 6, <<c6, 5>>),
                      2, LE(4, 4)), 8, LE(4, 4)), 12, LE(4, 4))

InitGot ==
    /\ \E rels \in Lists(GotRels, MaxRels), relax \in BOOLEAN,
          c0 \in {139, 141, 0}, c1 \in {131, 139}, c6 \in {139, 137} :
         MachineInit(Context(relax, {}, FALSE, {}),
                     <<Section(rels, GotContents(c0, c1, c6), TRUE, 4096)>>)
    /\ call = NoCall /\ mem = <<>>

SpecGot == InitGot /\ [][NextLink]_vars

\* --- Sections scanned at the same time, one per task.  Two tasks may hold
\* the same section: it is then scanned more than once.
ParSections ==
    { <<Rel(12, "R_386_GOT32", "loc"), Rel(8, "R_386_PLT32", "fn"),
        Rel(2, "R_386_GOT32X", "loc")>>,
      <<Rel(3, "R_386_TLS_GD", "tv"), Rel(8, "R_386_PLT32", "fn"),
        Rel(12, "R_386_TLS_IE", "tv")>>,
      <<Rel(3, "R_386_TLS_LDM", "tv"), Rel(8, "R_386_GOT32X", "fn"),
        Rel(12, "R_386_TLS_GOTDESC", "tv")>>,
      <<Rel(4, "R_386_32", "ifn"), Rel(8, "R_386_PC32", "imp"),
        Rel(2, "R_386_8", "imp")>>,
      <<Rel(4, "R_386_UNKNOWN", "loc"), Rel(8, "R_386_GOTPC", "und"),
        Rel(12, "R_386_PLT32", "fn")>>,
      <<Rel(8, "R_386_GOT32X", "loc"), Rel(3, "R_386_TLS_GD", "tw"),
        Rel(8, "R_386_PC32", "fn")>> }

InitPar ==
    /\ \E rels \in [1..NumTasks -> ParSections], relax \in BOOLEAN,
          tls \in {{}, {"tv"}} :
         MachineInit(Context(relax, tls, tls # {}, tls),
                     [t \in 1..NumTasks |->
                        Section(rels[t], GotContents(139, 131, 137), TRUE,
                                4096 * t)])
    /\ call = NoCall /\ mem = <<>>

NextScan ==
    \/ \E t \in Tasks : ScanStart(t)
    \/ \E t \in Tasks : ScanLoop(t)
    \/ \E t \in Tasks : ScanSwitch(t)

SpecPar == InitPar /\ [][NextScan]_vars

\* --- Narrow relocations at the edges of their ranges: one section,
\* allocatable or not.
NarrowRels ==
    { Rel(2, "R_386_8", "loc"), Rel(2, "R_386_16", "far"),
      Rel(2, "R_386_PC8", "loc"), Rel(2, "R_386_PC16", "far"),
      Rel(8, "R_386_PC8", "tv"), Rel(10, "R_386_PC16", "loc"),
      Rel(2, "R_386_8", "und"), Rel(2, "R_386_16", "str"),
      Rel(12, "R_386_GOTOFF", "loc") }

\* Addends a at offset 2, 95 + a at offset 8 and 0x7f00 + a at offset 10.
NarrowContents(a) ==
    [ZeroBytes EXCEPT ![2] = a, ![8] = 95 + a, ![10] = a, ![11] = 127]

InitNarrow ==
    /\ \E rels \in Lists(NarrowRels, MaxRels), alloc \in BOOLEAN,
          a \in {0, 1}, addr \in {126, 382, 32766, 98302} :
         MachineInit(Context(TRUE, {}, FALSE, {}),
                     <<Section(rels, NarrowContents(a), alloc, addr)>>)
    /\ call = NoCall /\ mem = <<>>

NextBoth ==
    \/ \E t \in Tasks : ScanStart(t)
    \/ \E t \in Tasks : ScanLoop(t)
    \/ \E t \in Tasks : ScanSwitch(t)
    \/ Allocate
    \/ \E t \in Tasks : ApplyAlloc(t)
    \/ \E t \in Tasks : ApplyNonalloc(t)

SpecNarrow == InitNarrow /\ [][NextBoth]_vars

\* --- The same relocations, contents and address in an allocatable section
\* (task 1) and in one that is not (task 2).
TwinRels ==
    { Rel(4, "R_386_GOTPC", "loc"), Rel(4, "R_386_GOTPC", "far"),
      Rel(8, "R_386_GOTOFF", "loc"), Rel(8, "R_386_GOTOFF", "far"),
      Rel(12, "R_386_SIZE32", "loc"), Rel(12, "R_386_SIZE32", "far") }

\* The 32-bit addend a in the fields at offsets 4, 8 and 12.
TwinContents(a) ==
    Store(Store(Store(ZeroBytes, 4, LE(a, 4)), 8, LE(a, 4)), 12, LE(a, 4))

InitTwin ==
    /\ \E rels \in Lists(TwinRels, MaxRels), a \in {4, -4},
          addr \in {0, 134512640} :
         MachineInit(Context(TRUE, {}, FALSE, {}),
                     <<Section(rels, TwinContents(a), TRUE, addr),
                       Section(rels, TwinContents(a), FALSE, addr)>>)
    /\ call = NoCall /\ mem = <<>>

SpecTwin == InitTwin /\ [][NextBoth]_vars

\* --- The PLT emitters, each called once on a fresh buffer.
InitPlt ==
    /\ NoMachine
    /\ mem = FreshBuf(PltLen)
    /\ \E fn \in {"write_plt_header", "write_plt_entry", "write_pltgot_entry"},
          pic \in BOOLEAN, a1 \in {12332, 12544}, a2 \in {12288, 20480},
          n \in {0, 3, 500} :
         call = [NoCall EXCEPT !.fn = fn, !.pic = pic, !.a1 = a1, !.a2 = a2,
                               !.n = n, !.pc = "ready"]

NextPlt ==
    \/ CallWritePltHeader
    \/ CallWritePltEntry
    \/ CallWritePltgotEntry

SpecPlt == InitPlt /\ [][NextPlt]_vars

\* --- write_addend, called once on a fresh buffer.
AddendVals ==
    {0, 1, -1, 128, -129, 255, 256, 65535, 65536, -32769, 305419896,
     2147483647, -2147483647}

InitAddend ==
    /\ NoMachine
    /\ mem = FreshBuf(AddendLen)
    /\ \E type \in AnyType, val \in AddendVals, loc \in {0, 3} :
         call = [NoCall EXCEPT !.fn = "write_addend", !.type = type,
                               !.val = val, !.loc = loc, !.pc = "ready"]

NextAddend == CallWriteAddend

SpecAddend == InitAddend /\ [][NextAddend]_vars

\* ------------------------------------------------------------------ claims

\* The bytes of b at off .. off + n - 1, as a sequence.
Bytes(b, off, n) == [k \in 1..n |-> b[off + k - 1]]

\* Relocation i (0-based) of task t's section.
RelAt(t, i) == isec[t].rels[i + 1]

\* Relocation i of rels is a TLS_GD or TLS_LDM whose follower is missing or
\* is none of PLT32, PC32, GOT32, GOT32X.
BadFollower(rels, i) ==
    /\ rels[i + 1].r_type \in {"R_386_TLS_GD", "R_386_TLS_LDM"}
    /\ \/ i + 1 = Len(rels)
       \/ rels[i + 2].r_type \notin {"R_386_PLT32", "R_386_PC32",
                                     "R_386_GOT32", "R_386_GOT32X"}

\* C1 as stated: no scan of a section returns normally after it has passed
\* over a TLS_GD or TLS_LDM relocation with a missing or wrong follower,
\* whatever symbol the relocation refers to (defined or undefined).
C1_Original ==
    \A t \in Tasks :
        pc[t] = "scanned" =>
            \A i \in visited[t].scan : ~BadFollower(isec[t].rels, i)

\* C1 as amended: a TLS_GD or TLS_LDM relocation against a DEFINED symbol
\* whose follower is missing or of a wrong type stops the scan at that
\* relocation: the scan never moves past it, and it ends in a Fatal that
\* terminates the link.  (Against an undefined symbol the scan records the
\* undefined-symbol error and goes on, without looking at the follower.)
C1_FollowerFatal ==
    \A t \in Tasks : \A i \in visited[t].scan :
        (BadFollower(isec[t].rels, i) /\ Symbols[RelAt(t, i).r_sym].file) =>
            /\ idx[t] = i
            /\ pc[t] \in {"switch", "fatal"}
            /\ (pc[t] = "fatal" => fatal)
            /\ (last.op = "scan" /\ last.t = t /\ last.i = i => pc[t] = "fatal")

\* A Fatal raised on a TLS_GD or TLS_LDM whose follower exists but has a
\* wrong type.
C1_Witness ==
    \E t \in Tasks :
        /\ fatal /\ pc[t] = "fatal"
        /\ BadFollower(isec[t].rels, idx[t])
        /\ idx[t] + 1 < Len(isec[t].rels)
        /\ Symbols[RelAt(t, idx[t]).r_sym].file

RelaxedInApply(t, i) ==
    \/ RelAt(t, i).r_type = "R_386_TLS_GD" /\ RelAt(t, i).r_sym \notin slots.tlsgd
    \/ RelAt(t, i).r_type = "R_386_TLS_LDM" /\ ~slots.tlsld

\* C10: for a section whose scan completed without error, with slots
\* given to exactly the flagged symbols, apply_reloc_alloc runs its loop
\* body on exactly the relocations the scan ran its loop body on (so it
\* skips exactly the followers the scan skipped); when it takes the
\* GD-to-LE or LDM-to-LE branch, i + 1 is inside the list and of one of the
\* four follower types, unreachable() is not reached, the Local-Exec bytes
\* are in place and the loop goes on at i + 2, never applying the follower.
C10_ScanApplyAgree ==
    /\ \A t \in Tasks :
          pc[t] = "done" => visited[t].apply = visited[t].scan
    /\ \A t \in Tasks : \A i \in visited[t].apply :
          (RelaxedInApply(t, i) /\ (idx[t] > i \/ pc[t] = "done")) =>
             (i + 1) \notin visited[t].apply
    /\ (last.op = "apply" /\ last.type \in {"R_386_TLS_GD", "R_386_TLS_LDM"}) =>
          LET t   == last.t
              i   == last.i
              loc == RelAt(t, i).r_offset
              S   == Symbols[last.sym].addr
              A   == get_addend(isec[t].contents, RelAt(t, i))
          IN  /\ last.branch \in {"tlsgd", "tlsld", "relax"}
              /\ pc[t] = "apply"
              /\ (last.branch = "relax") = RelaxedInApply(t, i)
              /\ last.branch = "relax" =>
                   /\ i + 1 < Len(isec[t].rels)
                   /\ RelAt(t, i + 1).r_type \in
                         {"R_386_PLT32", "R_386_PC32", "R_386_GOT32",
                          "R_386_GOT32X"}
                   /\ idx[t] = i + 2
                   /\ (last.type = "R_386_TLS_GD"
                         /\ RelAt(t, i + 1).r_type \in
                               {"R_386_PLT32", "R_386_PC32"}) =>
                        Bytes(buf[t], loc - 3, 12) =
                            <<101, 161, 0, 0, 0, 0, 129, 232>>
                            \o LE(tp_addr - S - A, 4)
                   /\ (last.type = "R_386_TLS_GD"
                         /\ RelAt(t, i + 1).r_type \in
                               {"R_386_GOT32", "R_386_GOT32X"}) =>
                        Bytes(buf[t], loc - 2, 12) =
                            <<101, 161, 0, 0, 0, 0, 129, 232>>
                            \o LE(tp_addr - S - A, 4)
                   /\ last.type = "R_386_TLS_LDM" =>
                        Bytes(buf[t], loc - 2, 11) =
                            <<49, 192, 101, 139, 0, 129, 232>>
                            \o LE(tp_addr - tls_begin, 4)

\* The apply pass has finished a section of three relocations in which it
\* relaxed a TLS_GD, skipped its follower and applied the relocation after.
C10_Witness ==
    \E t \in Tasks :
        /\ pc[t] = "done"
        /\ Len(isec[t].rels) = 3
        /\ RelAt(t, 0).r_type = "R_386_TLS_GD"
        /\ visited[t].apply = {0, 2}
        /\ visited[t].scan = {0, 2}
        /\ RelAt(t, 2).r_type # "R_386_NONE"

\* C4: when the scan processes a GOT32X relocation against a defined,
\* non-ifunc symbol, it leaves the symbol's flags alone (no fetch_or) if and
\* only if relax is set, the symbol is not imported, the symbol is relative
\* and the byte at loc - 2 of the contents is 0x8b; otherwise it ORs
\* NEEDS_GOT (and nothing else) into the flags.  The byte at loc - 1 does
\* not enter the condition.
C4_Got32xScan ==
    (last.op = "scan" /\ last.type = "R_386_GOT32X"
        /\ Symbols[last.sym].file /\ ~Symbols[last.sym].is_ifunc) =>
       LET t   == last.t
           loc == RelAt(t, last.i).r_offset
           relaxable ==
               /\ ctx.relax
               /\ ~Symbols[last.sym].is_imported
               /\ Symbols[last.sym].is_relative
               /\ isec[t].contents[loc - 2] = 139
       IN  /\ relaxable <=> last.branch = "nop"
           /\ relaxable => flags[last.sym] = last.old
           /\ ~relaxable => /\ last.branch = "or"
                            /\ flags[last.sym] = last.old \cup {"NEEDS_GOT"}

\* The scan has just relaxed a GOT32X (flags untouched and still empty) at
\* a site whose byte at loc - 1 differs from the usual ModRM byte.
C4_Witness ==
    /\ last.op = "scan" /\ last.type = "R_386_GOT32X"
    /\ last.branch = "nop"
    /\ flags[last.sym] = {}
    /\ isec[last.t].contents[RelAt(last.t, last.i).r_offset - 1] = 139
    /\ last.i = 1

\* What C9 says of an applied GOT32X relocation, given the byte at loc - 2
\* that the applier found.
Got32xApplied ==
    LET t   == last.t
        rel == RelAt(t, last.i)
        loc == rel.r_offset
        S   == Symbols[last.sym].addr
        A   == get_addend(isec[t].contents, rel)
        G   == SlotIdx(last.sym) * WordSize
    IN  /\ last.branch \in {"lea", "got"}
        /\ last.branch = "lea" =>
              /\ last.before[loc - 2] = 139
              /\ buf[t][loc - 2] = 141
              /\ buf[t][loc - 1] = last.before[loc - 1]
              /\ Bytes(buf[t], loc, 4) = LE(S + A - got_addr, 4)
        /\ last.before[loc - 2] # 139 =>
              /\ last.branch = "got"
              /\ last.sym \in slots.got
              /\ Bytes(buf[t], loc - 2, 2) = Bytes(last.before, loc - 2, 2)
              /\ Bytes(buf[t], loc, 4) = LE(G + A, 4)

\* C9: after the scan and the allocation, apply_reloc_alloc takes the
\* mov-to-lea branch of a GOT32X only when the byte at loc - 2 is 0x8b, so
\* assert(insn) never fails; the rewrite sets loc[-2] to 0x8d, keeps
\* loc[-1] and stores S + A - GOT; a site whose opcode byte is not 0x8b is
\* never rewritten and resolves through the GOT slot (G + A).
C9_Got32xApply ==
    (last.op = "apply" /\ last.type = "R_386_GOT32X") => Got32xApplied

\* The same restricted to the sites whose byte at loc - 2 in the output is
\* still the byte of the section's input when the relocation is applied
\* (no relocation applied earlier in the section has written it): this
\* much holds.
Got32xApplyOnInputByte ==
    (last.op = "apply" /\ last.type = "R_386_GOT32X"
        /\ last.before[RelAt(last.t, last.i).r_offset - 2] =
              isec[last.t].contents[RelAt(last.t, last.i).r_offset - 2])
       => Got32xApplied

\* A GOT32X whose opcode byte an earlier relocation of the section has
\* already rewritten to 0x8d is applied with no GOT slot for its symbol:
\* relax_got32x gives 0 and assert(insn) fails.
C9_Witness ==
    /\ last.op = "apply" /\ last.type = "R_386_GOT32X"
    /\ last.branch = "assert"
    /\ last.sym \notin slots.got
    /\ isec[last.t].contents[RelAt(last.t, last.i).r_offset - 2] = 139
    /\ last.before[RelAt(last.t, last.i).r_offset - 2] = 141

\* What the scan of one section asks for when it runs alone, from relocation
\* i on: the bits per symbol and whether it sets ctx.needs_tlsld.
RECURSIVE SoloScan(_, _, _)
SoloScan(c, sec, i) ==
    IF i >= Len(sec.rels)
    THEN [bits |-> [s \in Syms |-> {}], tlsld |-> FALSE]
    ELSE LET rel == sec.rels[i + 1]
             sym == Symbols[rel.r_sym]
         IN  IF rel.r_type = "R_386_NONE" \/ ~sym.file
             THEN SoloScan(c, sec, i + 1)
             ELSE LET r    == ScanSwitchResult(c, sec.rels, sec.contents, i)
                      rest == SoloScan(c, sec, i + 1 + r.skip)
                      mine == r.bits \cup (IF sym.is_ifunc
                                           THEN {"NEEDS_GOT", "NEEDS_PLT"}
                                           ELSE {})
                  IN  [bits  |-> [rest.bits EXCEPT ![rel.r_sym] = @ \cup mine],
                       tlsld |-> rest.tlsld \/ r.tlsld]

\* C5: when sections are scanned at the same time, in any interleaving of
\* the atomic updates (a section may be scanned by more than one task), once
\* every scan has returned each symbol's flags and ctx.needs_tlsld are the
\* union of what the scans ask for one by one.
C5_FlagsAreUnion ==
    (\A t \in Tasks : pc[t] = "scanned") =>
        LET solo == [t \in Tasks |-> SoloScan(ctx, isec[t], 0)]
        IN  /\ \A s \in Syms :
                  flags[s] = UNION {solo[t].bits[s] : t \in Tasks}
            /\ needs_tlsld = (\E t \in Tasks : solo[t].tlsld)

\* Two different sections have been scanned to the end, and a symbol holds
\* bits that came from both of them.
C5_Witness ==
    /\ \A t \in Tasks : pc[t] = "scanned"
    /\ isec[1].rels # isec[2].rels
    /\ needs_tlsld
    /\ flags["tv"] = {"NEEDS_TLSGD", "NEEDS_GOTTP", "NEEDS_TLSDESC"}
    /\ flags["fn"] = {"NEEDS_PLT", "NEEDS_GOT"}

\* C7: each of the six emitters (write_plt_header, write_plt_entry,
\* write_pltgot_entry, PIC and non-PIC) writes exactly the 16 bytes at
\* offsets 0..15 of buf, none at offset 16 or beyond, and the first four
\* are f3 0f 1e fb.
C7_SixteenBytes ==
    (call.fn \in {"write_plt_header", "write_plt_entry", "write_pltgot_entry"}
     /\ call.pc = "done") =>
        /\ \A j \in DOMAIN mem : (mem[j] # Untouched) <=> (j < 16)
        /\ Bytes(mem, 0, 4) = <<243, 15, 30, 251>>

\* The non-PIC PLT header has been emitted.
C7_Witness ==
    /\ call.fn = "write_plt_header" /\ ~call.pic /\ call.pc = "done"
    /\ mem[15] = 204 /\ mem[16] = Untouched
    /\ Bytes(mem, 6, 4) = LE(call.a1 + 4, 4)

\* The width the claim gives each type.
ClaimedWidth(type) ==
    IF type = "R_386_NONE" THEN 0
    ELSE IF type \in {"R_386_8", "R_386_PC8"} THEN 1
    ELSE IF type \in {"R_386_16", "R_386_PC16"} THEN 2
    ELSE 4

\* write_addend returned having written exactly the W low bytes of val,
\* little-endian, at loc, and no other byte.
WroteExactly(W) ==
    /\ call.pc = "done" /\ ~call.unreachable
    /\ \A j \in DOMAIN mem :
          mem[j] = IF j >= call.loc /\ j < call.loc + W
                   THEN (call.val \div (256 ^ (j - call.loc))) % 256
                   ELSE Untouched

\* C8 as stated: for every type of the set, R_386_TLS_DESC_CALL included,
\* write_addend writes exactly the claimed width.
C8_Original ==
    (call.fn = "write_addend" /\ call.pc # "ready"
     /\ call.type \in RelocationType) =>
        WroteExactly(ClaimedWidth(call.type))

\* C8 (amended): for every type of the set other than R_386_TLS_DESC_CALL,
\* write_addend writes exactly W bytes at loc (1 for _8/PC8, 2 for
\* _16/PC16, 0 for NONE, 4 for the others), the low bytes of val in
\* little-endian order, and changes no other byte; for R_386_TLS_DESC_CALL
\* it reaches unreachable().
C8_WriteAddend ==
    (call.fn = "write_addend" /\ call.pc # "ready"
     /\ call.type \in RelocationType) =>
        IF call.type = "R_386_TLS_DESC_CALL"
        THEN call.unreachable
        ELSE WroteExactly(ClaimedWidth(call.type))

\* A negative value has been written as a 16-bit field at loc 3.
C8_Witness ==
    /\ call.fn = "write_addend" /\ call.pc = "done"
    /\ call.type = "R_386_PC16" /\ call.val = -129 /\ call.loc = 3
    /\ Bytes(mem, 3, 2) = <<127, 255>> /\ mem[5] = Untouched

NarrowTypes == {"R_386_8", "R_386_16", "R_386_PC8", "R_386_PC16"}

\* The range the claim gives a narrow type, <<lo, hi>> for [lo, hi).
NarrowRange(ty) ==
    CASE ty = "R_386_8" -> <<0, 256>>
      [] ty = "R_386_16" -> <<0, 65536>>
      [] ty = "R_386_PC8" -> <<-128, 128>>
      [] ty = "R_386_PC16" -> <<-32768, 32768>>

NarrowWidth(ty) == IF ty \in {"R_386_8", "R_386_PC8"} THEN 1 ELSE 2

\* The value the applier of section t computes for the narrow relocation
\* rel: S + A, less P for the PC types of an allocatable section.
NarrowValue(t, rel) ==
    LET frag == get_fragment(rel.r_sym)
        A    == get_addend(isec[t].contents, rel)
        S    == Symbols[rel.r_sym].addr
        P    == isec[t].addr + rel.r_offset
    IN  IF isec[t].alloc
        THEN IF rel.r_type \in {"R_386_PC8", "R_386_PC16"} THEN S + A - P
             ELSE S + A
        ELSE IF frag.has THEN frag.addr + frag.addend ELSE S + A

\* The errors the log of task t holds for relocation i.
ErrorsAt(t, i) == SelectSeq(errlog[t], LAMBDA e : e.i = i)

\* C6: in both appliers a narrow relocation (against a defined symbol)
\* whose value is outside its range records exactly one range error, one
\* inside it none; either way the value truncated to the field width is
\* stored at the site, no other byte changes, and the loop goes on to the
\* next relocation, so that an applier that has returned has been through
\* every relocation of the section.
C6_NarrowRange ==
    /\ (last.op = "apply" /\ last.type \in NarrowTypes
        /\ Symbols[last.sym].file) =>
          LET t   == last.t
              rel == RelAt(t, last.i)
              v   == NarrowValue(t, rel)
              r   == NarrowRange(rel.r_type)
          IN  /\ ErrorsAt(t, last.i) =
                    IF v < r[1] \/ v >= r[2]
                    THEN <<Err("range", last.i)>> ELSE <<>>
              /\ fatal = FALSE
              /\ buf[t] = Store(last.before, rel.r_offset,
                                LE(v, NarrowWidth(rel.r_type)))
              /\ pc[t] = "apply" /\ idx[t] = last.i + 1
    /\ \A t \in Tasks :
          pc[t] = "done" => visited[t].apply = 0..(Len(isec[t].rels) - 1)

\* An _8 relocation with S + A = 0x100 has been applied with a range error
\* and a later relocation is still to come.
C6_Witness ==
    /\ last.op = "apply" /\ last.type = "R_386_8" /\ last.sym = "loc"
    /\ NarrowValue(last.t, RelAt(last.t, last.i)) = 256
    /\ ~isec[last.t].alloc
    /\ ErrorsAt(last.t, last.i) = <<Err("range", last.i)>>
    /\ buf[last.t][2] = 0
    /\ idx[last.t] < Len(isec[last.t].rels)

\* C2 as stated: the two appliers write the same value at the site of every
\* GOTPC, GOTOFF and SIZE32 relocation, so two sections with the same
\* relocations, contents and address end with the same bytes.
C2_Original ==
    (pc[1] = "done" /\ pc[2] = "done") => buf[1] = buf[2]

\* C2 (amended): GOTOFF yields S + A - GOT and SIZE32 yields st_size + A in
\* both appliers, so the sites of these two types end with the same bytes
\* in both sections; GOTPC yields GOT + A - P in apply_reloc_alloc and
\* GOT + A in apply_reloc_nonalloc.
C2_TwinValues ==
    /\ (last.op = "apply"
        /\ last.type \in {"R_386_GOTPC", "R_386_GOTOFF", "R_386_SIZE32"}) =>
          LET t   == last.t
              rel == RelAt(t, last.i)
              sym == Symbols[rel.r_sym]
              A   == get_addend(isec[t].contents, rel)
              P   == isec[t].addr + rel.r_offset
              v   == CASE rel.r_type = "R_386_GOTOFF" -> sym.addr + A - got_addr
                       [] rel.r_type = "R_386_SIZE32" -> sym.st_size + A
                       [] rel.r_type = "R_386_GOTPC" ->
                            IF isec[t].alloc THEN got_addr + A - P
                            ELSE got_addr + A
          IN  /\ Bytes(buf[t], rel.r_offset, 4) = LE(v, 4)
              /\ errlog[t] = <<>>
    /\ (pc[1] = "done" /\ pc[2] = "done") =>
          \A j \in 8..15 : buf[1][j] = buf[2][j]

\* Both sections have been applied, with a GOTPC site that differs and a
\* GOTOFF and a SIZE32 site that agree.
C2_Witness ==
    /\ pc[1] = "done" /\ pc[2] = "done"
    /\ {isec[1].rels[k].r_type : k \in DOMAIN isec[1].rels} =
          {"R_386_GOTPC", "R_386_GOTOFF", "R_386_SIZE32"}
    /\ Bytes(buf[1], 4, 4) # Bytes(buf[2], 4, 4)
    /\ Bytes(buf[1], 8, 8) = Bytes(buf[2], 8, 8)
    /\ Bytes(buf[1], 8, 4) # Bytes(isec[1].contents, 8, 4)

====
